---- MODULE Spec2Model ----
(***************************************************************************)
(* AMA Global (Juniorduc44/ama_bolt): the dual-mode data-access layer.     *)
(*                                                                         *)
(* SpecAuth, Spec, SpecVote : the client hooks (useAuthProvider,           *)
(*           useQuestions asking, useQuestions voting) over the            *)
(*           browser-local store (offlineDB) and the remote backend.       *)
(* SpecDB  : the database side - row level security policies and the       *)
(*           counter triggers on answers - driven by the page handlers     *)
(*           that write answers (QuestionDetailPage, SharePage).           *)
(* SpecFollow : the follows table, its policies and its counter trigger.   *)
(* SpecMode, SpecSafe : lib/supabase - isOfflineMode over every build      *)
(*           environment, and the remote-call wrapper.                     *)
(* SpecDirect : the useAuthProvider variant that calls the backend        *)
(*           directly, with its session bootstrap and auth listener.       *)
(* SpecSearch : useSearch driven by GlobalFeed's debounced effect, with    *)
(*           several searchDatabase calls in flight.                       *)
(* SpecAsk : AskQuestionPage's form over useQuestions.createQuestion.      *)
(* SpecInsert : the insert policies on the questions table.                *)
(*                                                                         *)
(* Every handler is async but awaits its I/O sequentially and the browser  *)
(* runs one handler continuation at a time, so a handler is one action     *)
(* whose remote outcome is chosen nondeterministically.                    *)
(***************************************************************************)
EXTENDS Integers, Sequences, FiniteSets, TLC

(* ---------------------------------------------------------------------- *)
(* Bounds of the model                                                     *)
(* ---------------------------------------------------------------------- *)
MaxLocalUsers == 1
MaxLocalQuestions == 2
MaxRemoteQuestions == 1
MaxLocalVotes == 5

(* ---------------------------------------------------------------------- *)
(* Values                                                                  *)
(* ---------------------------------------------------------------------- *)
\* identifiers are pairs <<origin, n>>; NULL is the null / undefined id
NULL == <<"null", 0>>
\* OfflineDB.generateId: 'offline_' + Date.now() + '_' + random suffix
generateId(n) == <<"offline", n>>
RemoteId(n) == <<"remote", n>>

\* a string column that is SQL NULL / JS null, and a JS undefined argument
NullName == "<null>"
Undefined == "<undefined>"
\* askerName arguments: omitted, empty, a name
AskerNames == {Undefined, "", "Ann"}

Emails == {"a@x", "b@x"}
NoUser == [id |-> NULL, email |-> ""]
\* the accounts the identity provider knows, with their profile rows
RemoteProfiles == {[id |-> RemoteId(1), email |-> "a@x"]}

VoteTypes == {"up", "down"}

\* JavaScript values that cross safeSupabaseOperation, tagged by their type
JsNull == [tag |-> "null", val |-> <<>>]
JsBool(b) == [tag |-> "bool", val |-> b]
JsArray(s) == [tag |-> "array", val |-> s]
JsObject(o) == [tag |-> "object", val |-> o]
JsUndefined == [tag |-> "undefined", val |-> <<>>]
\* a string whose characters matter, as the sequence of its characters
JsString(s) == [tag |-> "string", val |-> s]
\* Array.isArray(v)
IsArray(v) == v.tag = "array"
\* the truthiness test of `if (result)`
Truthy(v) == CASE v.tag = "null" -> FALSE
               [] v.tag = "undefined" -> FALSE
               [] v.tag = "bool" -> v.val
               [] v.tag = "string" -> v.val # <<>>
               [] OTHER -> TRUE

\* a wrapper that answers null for every rejection
safeSupabaseOperation_nullOnRejection(outcome, value, fallback) ==
  IF outcome = "ok" THEN value ELSE JsNull

\* safeSupabaseOperation(op, fallback): one attempt; a rejection of op
\* yields the fallback value
safeSupabaseOperation(outcome, value, fallback) ==
  IF outcome = "ok" THEN value ELSE fallback

(* ---------------------------------------------------------------------- *)
(* lib/supabase: the mode switch                                           *)
(* ---------------------------------------------------------------------- *)
Str_true == <<"t", "r", "u", "e">>
Str_false == <<"f", "a", "l", "s", "e">>
Str_https == <<"h", "t", "t", "p", "s", ":", "/", "/">>
\* 'your_supabase_url_here'
PlaceholderUrl ==
  <<"y", "o", "u", "r", "_", "s", "u", "p", "a", "b", "a", "s", "e", "_", "u", "r", "l", "_", "h", "e", "r", "e">>
\* 'your_supabase_anon_key_here'
PlaceholderKey ==
  <<"y", "o", "u", "r", "_", "s", "u", "p", "a", "b", "a", "s", "e", "_", "a", "n", "o", "n", "_", "k", "e", "y", "_", "h", "e", "r", "e">>
HttpsUrl == <<"h", "t", "t", "p", "s", ":", "/", "/", "a", ".", "c", "o">>
HttpUrl == <<"h", "t", "t", "p", ":", "/", "/", "a", ".", "c", "o">>
AnonKey == <<"k", "e", "y">>

\* String.prototype.startsWith
startsWith(s, prefix) ==
  Len(s) >= Len(prefix) /\ SubSeq(s, 1, Len(prefix)) = prefix

\* `v || ''`
OrEmpty(v) == IF Truthy(v) THEN v.val ELSE <<>>

\* const supabaseUrl = import.meta.env.VITE_SUPABASE_URL || ''
supabaseUrl(e) == OrEmpty(e.VITE_SUPABASE_URL)
\* const supabaseAnonKey = import.meta.env.VITE_SUPABASE_ANON_KEY || ''
supabaseAnonKey(e) == OrEmpty(e.VITE_SUPABASE_ANON_KEY)

\* a credentials test that accepts any URL scheme
hasValidCredentials_anyScheme(e) ==
  /\ supabaseUrl(e) # <<>>
  /\ supabaseAnonKey(e) # <<>>
  /\ supabaseUrl(e) # PlaceholderUrl
  /\ supabaseAnonKey(e) # PlaceholderKey

\* const hasValidCredentials = supabaseUrl && supabaseAnonKey && ... , as the
\* truth value its uses take
hasValidCredentials(e) ==
  /\ supabaseUrl(e) # <<>>
  /\ supabaseAnonKey(e) # <<>>
  /\ supabaseUrl(e) # PlaceholderUrl
  /\ supabaseAnonKey(e) # PlaceholderKey
  /\ startsWith(supabaseUrl(e), Str_https)

\* isOfflineMode()
isOfflineMode(e) ==
  e.VITE_OFFLINE_MODE = JsString(Str_true) \/ ~hasValidCredentials(e)

\* the environments of a build
Envs ==
  [VITE_OFFLINE_MODE : {JsUndefined, JsString(Str_true), JsString(Str_false)},
   VITE_SUPABASE_URL : {JsUndefined, JsString(<<>>), JsString(PlaceholderUrl),
                        JsString(HttpUrl), JsString(HttpsUrl)},
   VITE_SUPABASE_ANON_KEY : {JsUndefined, JsString(PlaceholderKey), JsString(AnonKey)}]

\* localStorage.getItem of the preference: null when absent
StoredPreferences == {JsNull, JsString(Str_true), JsString(Str_false)}

OnlineEnv == [VITE_OFFLINE_MODE |-> JsUndefined, VITE_SUPABASE_URL |-> JsString(HttpsUrl),
              VITE_SUPABASE_ANON_KEY |-> JsString(AnonKey)]
OfflineEnv == [VITE_OFFLINE_MODE |-> JsString(Str_true), VITE_SUPABASE_URL |-> JsUndefined,
               VITE_SUPABASE_ANON_KEY |-> JsUndefined]

(* ---------------------------------------------------------------------- *)
(* Sequence helpers                                                        *)
(* ---------------------------------------------------------------------- *)
\* Array.prototype.find: the first element satisfying Test, else none
Find(s, Test(_), none) ==
  IF \E i \in 1..Len(s) : Test(s[i])
  THEN s[CHOOSE i \in 1..Len(s) : Test(s[i]) /\ \A j \in 1..(i-1) : ~Test(s[j])]
  ELSE none

Reverse(s) == [i \in 1..Len(s) |-> s[Len(s) + 1 - i]]

(* ---------------------------------------------------------------------- *)
(* State                                                                   *)
(* ---------------------------------------------------------------------- *)
VARIABLES
  offline,              \* isOfflineMode(): fixed by the environment
  auth,                 \* useAuthProvider state {user, loading, error}
  initDone,             \* initAuth has run
  listening,            \* onAuthStateChange subscription is set up
  session,              \* the identity provider's session user id
  authEvents,           \* auth state change events not yet delivered
  ama_cached_user,      \* localStorage['ama_cached_user']
  offline_current_user, \* localStorage['offline_current_user']
  offline_users,        \* localStorage['offline_users']
  offline_questions,    \* localStorage['offline_questions']
  offline_votes,        \* localStorage['offline_votes']
  idSeq,                \* source of fresh generateId values
  remote_questions,     \* rows of the remote questions table
  questions,            \* useQuestions in-memory list
  loading,              \* useQuestions loading flag
  error,                \* useQuestions error message
  lastCall              \* the last completed handler call and its result

VARIABLES
  db_profiles,          \* rows of profiles, by id
  db_questions,         \* rows of questions, by id
  db_answers,           \* rows of answers, by id
  answerSeq,            \* source of fresh answer ids (gen_random_uuid)
  sharePage,            \* SharePage component state
  lastDb                \* the last page handler / database request

VARIABLES
  db_follows,           \* rows of follows: [follower_id, following_id]
  db_follow_counts      \* profiles.followers_count / following_count, by id

VARIABLES
  searchTerm,           \* GlobalFeed searchTerm state
  debounce,             \* the 300 ms timeout of the search effect is pending
  inFlight,             \* searchDatabase calls awaiting the backend
  searchSeq,            \* number of searchDatabase calls issued so far
  results,              \* useSearch results state
  isSearching           \* GlobalFeed isSearching state

VARIABLES
  formData,             \* AskQuestionPage formData: askerName, isAnonymous
  errors                \* AskQuestionPage errors, by field

VARIABLES
  env,                  \* import.meta.env
  storedPreference,     \* the offline-mode preference kept in localStorage
  lastLib               \* the last call of a lib/supabase function

dbVars == <<db_profiles, db_questions, db_answers, answerSeq, sharePage, lastDb>>

followVars == <<db_follows, db_follow_counts>>

libVars == <<env, storedPreference, lastLib>>

searchVars == <<searchTerm, debounce, inFlight, searchSeq, results, isSearching>>

formVars == <<formData, errors>>

clientVars == <<offline, auth, initDone, listening, session, authEvents,
                ama_cached_user, offline_current_user, offline_users,
                offline_questions, offline_votes, idSeq, remote_questions,
                questions, loading, error, lastCall>>

NoError == ""
NoLib == [fn |-> "none", args |-> <<>>, result |-> JsNull]
\* op: the handler; outcome: what the remote side answered; result: "ok"
\* (returned), "error" (returned an error), "threw", "noop" (early return);
\* message: the error's text; warned: a warning toast was raised; remote:
\* the remote operations attempted, in order; ret: id of the returned record
NoCall == [op |-> "none", outcome |-> "", result |-> "", message |-> "",
           warned |-> FALSE, remote |-> <<>>, ret |-> NULL]

\* the effect that mirrors auth.user into localStorage['ama_cached_user']
CacheUser(a) == a.user

AuthState(u, l, e) == [user |-> u, loading |-> l, error |-> e]

MaxAuthEvents == 1

\* profiles row of a session user (.eq('id', ...).single())
ProfileOf(uid) ==
  IF \E p \in RemoteProfiles : p.id = uid
  THEN CHOOSE p \in RemoteProfiles : p.id = uid
  ELSE NoUser

\* users.find(u => u.email === email)
FindUserByEmail(users, email) ==
  LET Test(u) == u.email = email IN Find(users, Test, NoUser)

\* OfflineDB.saveUser: append a user with a generated id
saveUser(users, email, n) == Append(users, [id |-> generateId(n), email |-> email])

questionVars == <<offline_questions, offline_votes, remote_questions,
                  questions, loading, error>>

(* ---------------------------------------------------------------------- *)
(* useAuthProvider                                                         *)
(* ---------------------------------------------------------------------- *)
\* initAuth: session bootstrap
initAuth ==
  /\ ~initDone
  /\ initDone' = TRUE
  /\ \E outcome \in {"ok", "fail"} :
       LET cur == offline_current_user
           profile == IF session # NULL THEN JsObject(ProfileOf(session)) ELSE JsNull
           result == safeSupabaseOperation(outcome, profile, JsNull)
       IN /\ auth' = IF offline
                     THEN (IF cur # NoUser THEN AuthState(cur, FALSE, NoError)
                                           ELSE [auth EXCEPT !.loading = FALSE])
                     ELSE (IF Truthy(result) THEN AuthState(result.val, FALSE, NoError)
                                             ELSE [auth EXCEPT !.loading = FALSE])
          /\ (offline => outcome = "ok")
          /\ listening' = ~offline
          /\ lastCall' = [NoCall EXCEPT !.op = "initAuth",
                            !.outcome = IF offline THEN "" ELSE outcome,
                            !.result = "ok",
                            !.remote = IF offline THEN <<>> ELSE <<"getSession">>]
  /\ ama_cached_user' = CacheUser(auth')
  /\ UNCHANGED <<offline, session, authEvents, offline_current_user,
                 offline_users, idSeq>>
  /\ UNCHANGED questionVars
  /\ UNCHANGED <<dbVars, followVars, libVars, searchVars, formVars>>

\* the onAuthStateChange callback
onAuthStateChange ==
  /\ listening
  /\ authEvents # <<>>
  /\ \E outcome \in {"ok", "fail"} :
       LET ev == Head(authEvents) IN
       /\ (ev.type = "SIGNED_OUT" \/ ev.user = NULL) => outcome = "ok"
       /\ auth' = IF ev.type = "SIGNED_OUT" \/ ev.user = NULL
                  THEN AuthState(NoUser, FALSE, NoError)
                  ELSE IF outcome = "ok" /\ ProfileOf(ev.user) # NoUser
                       THEN AuthState(ProfileOf(ev.user), FALSE, NoError)
                       ELSE auth
       /\ lastCall' = [NoCall EXCEPT !.op = "onAuthStateChange",
                         !.outcome = outcome,
                         !.result = "ok"]
  /\ authEvents' = Tail(authEvents)
  /\ ama_cached_user' = CacheUser(auth')
  /\ UNCHANGED <<offline, initDone, listening, session, offline_current_user,
                 offline_users, idSeq>>
  /\ UNCHANGED questionVars
  /\ UNCHANGED <<dbVars, followVars, libVars, searchVars, formVars>>

\* the local authentication of signIn: a scan for the email, no password
signInLocal(email, outcome, warned, remote) ==
  LET user == FindUserByEmail(offline_users, email) IN
  /\ offline_current_user' = IF user # NoUser THEN user ELSE offline_current_user
  /\ auth' = IF user # NoUser
             THEN AuthState(user, FALSE, NoError)
             ELSE AuthState(auth.user, FALSE, "Invalid credentials")
  /\ lastCall' = [NoCall EXCEPT !.op = "signIn", !.outcome = outcome,
                    !.result = IF user # NoUser THEN "ok" ELSE "error",
                    !.message = IF user # NoUser THEN "" ELSE "Invalid credentials",
                    !.warned = warned, !.remote = remote]
  /\ UNCHANGED <<session, authEvents>>

\* signIn(email, password); the provider accepts ("ok"), rejects the
\* credentials ("invalid") or cannot be reached ("network")
signIn ==
  \E email \in Emails, outcome \in {"ok", "invalid", "network"} :
    /\ (outcome = "ok") => (\E p \in RemoteProfiles : p.email = email)
    /\ offline => outcome = "ok"
    /\ IF offline
       THEN signInLocal(email, "", FALSE, <<>>)
       ELSE LET result == safeSupabaseOperation(outcome, JsBool(TRUE), JsBool(FALSE)) IN
            IF Truthy(result)
            THEN /\ Len(authEvents) < MaxAuthEvents
                 /\ LET p == CHOOSE p \in RemoteProfiles : p.email = email IN
                      /\ session' = p.id
                      /\ authEvents' = IF listening
                                         THEN Append(authEvents, [type |-> "SIGNED_IN", user |-> p.id])
                                         ELSE authEvents
                 /\ auth' = [auth EXCEPT !.error = NoError]
                 /\ lastCall' = [NoCall EXCEPT !.op = "signIn", !.outcome = outcome, !.result = "ok",
                                   !.remote = <<"signInWithPassword">>]
                 /\ UNCHANGED offline_current_user
            ELSE signInLocal(email, outcome, TRUE, <<"signInWithPassword">>)
    /\ ama_cached_user' = CacheUser(auth')
    /\ UNCHANGED <<offline, initDone, listening, offline_users, idSeq>>
    /\ UNCHANGED questionVars
    /\ UNCHANGED <<dbVars, followVars, libVars, searchVars, formVars>>

\* the local branch of signUp: create the user in the local store
signUpLocal(email, outcome, warned, remote) ==
  LET users == saveUser(offline_users, email, idSeq)
      newUser == users[Len(users)]
  IN /\ Len(offline_users) < MaxLocalUsers
     /\ offline_users' = users
     /\ idSeq' = idSeq + 1
     /\ offline_current_user' = newUser
     /\ auth' = AuthState(newUser, FALSE, NoError)
     /\ lastCall' = [NoCall EXCEPT !.op = "signUp", !.outcome = outcome, !.result = "ok",
                       !.warned = warned, !.remote = remote]

\* signUp(email, password, username)
signUp ==
  \E email \in Emails, outcome \in {"ok", "fail"} :
    /\ offline => outcome = "ok"
    /\ IF offline
       THEN signUpLocal(email, "", FALSE, <<>>)
       ELSE LET result == safeSupabaseOperation(outcome, JsObject(email), JsNull) IN
            IF Truthy(result)
            THEN /\ auth' = [auth EXCEPT !.error = NoError]
                 /\ lastCall' = [NoCall EXCEPT !.op = "signUp", !.outcome = outcome, !.result = "ok",
                                   !.remote = <<"signUp">>]
                 /\ UNCHANGED <<offline_users, idSeq, offline_current_user>>
            ELSE signUpLocal(email, outcome, TRUE, <<"signUp">>)
    /\ ama_cached_user' = CacheUser(auth')
    /\ UNCHANGED <<offline, initDone, listening, session, authEvents>>
    /\ UNCHANGED questionVars
    /\ UNCHANGED <<dbVars, followVars, libVars, searchVars, formVars>>

\* signInWithOAuth(provider); starting the provider redirect succeeds ("ok")
\* or fails ("fail")
signInWithOAuth ==
  \E provider \in {"google", "github"}, outcome \in {"ok", "fail"} :
    LET call == [NoCall EXCEPT !.op = "signInWithOAuth"] IN
    /\ offline => outcome = "ok"
    /\ IF offline
       THEN /\ auth' = [auth EXCEPT !.loading = FALSE,
                          !.error = "OAuth authentication is not available in offline mode"]
            /\ lastCall' = [call EXCEPT !.result = "error", !.message = auth'.error]
       ELSE LET result == safeSupabaseOperation(outcome, JsBool(TRUE), JsBool(FALSE))
                remote == <<"signInWithOAuth">>
            IN IF ~Truthy(result)
               THEN /\ auth' = [auth EXCEPT !.loading = FALSE,
                                  !.error = provider \o " authentication is not available"]
                    /\ lastCall' = [call EXCEPT !.outcome = outcome, !.result = "error",
                                      !.message = auth'.error, !.remote = remote]
               ELSE \* the browser leaves for the provider; loading is not touched
                    /\ auth' = [auth EXCEPT !.error = NoError]
                    /\ lastCall' = [call EXCEPT !.outcome = outcome, !.result = "ok",
                                      !.remote = remote]
    /\ ama_cached_user' = CacheUser(auth')
    /\ UNCHANGED <<offline, initDone, listening, session, authEvents,
                   offline_current_user, offline_users, idSeq>>
    /\ UNCHANGED questionVars
    /\ UNCHANGED <<dbVars, followVars, libVars, searchVars, formVars>>

\* a signOut that reports a failed remote sign-out and stays signed in
signOut_remoteFailureKeepsUser ==
  \E outcome \in {"ok", "fail"} :
    /\ offline => outcome = "ok"
    /\ offline_current_user' = IF offline THEN NoUser ELSE offline_current_user
    /\ session' = IF ~offline /\ outcome = "ok" THEN NULL ELSE session
    /\ authEvents' =
         IF ~offline /\ outcome = "ok" /\ listening /\ session # NULL
            /\ Len(authEvents) < MaxAuthEvents
         THEN Append(authEvents, [type |-> "SIGNED_OUT", user |-> NULL])
         ELSE authEvents
    /\ auth' = IF outcome = "ok" THEN AuthState(NoUser, FALSE, NoError)
               ELSE AuthState(auth.user, FALSE, "Sign out failed")
    /\ lastCall' = [NoCall EXCEPT !.op = "signOut",
                      !.outcome = IF offline THEN "" ELSE outcome,
                      !.result = IF outcome = "ok" THEN "ok" ELSE "error",
                      !.message = IF outcome = "ok" THEN "" ELSE "Sign out failed",
                      !.remote = IF offline THEN <<>> ELSE <<"signOut">>]
    /\ ama_cached_user' = CacheUser(auth')
    /\ UNCHANGED <<offline, initDone, listening, offline_users, idSeq>>
    /\ UNCHANGED questionVars
    /\ UNCHANGED <<dbVars, followVars, libVars, searchVars, formVars>>

\* signOut()
signOut ==
  \E outcome \in {"ok", "fail"} :
    /\ offline => outcome = "ok"
    /\ LET result == safeSupabaseOperation(outcome, JsBool(TRUE), JsBool(TRUE)) IN
       /\ offline_current_user' =
            IF offline THEN NoUser
            ELSE IF ~Truthy(result) THEN NoUser ELSE offline_current_user
       /\ session' = IF ~offline /\ outcome = "ok" THEN NULL ELSE session
       /\ authEvents' =
            IF ~offline /\ outcome = "ok" /\ listening /\ session # NULL
               /\ Len(authEvents) < MaxAuthEvents
            THEN Append(authEvents, [type |-> "SIGNED_OUT", user |-> NULL])
            ELSE authEvents
    /\ auth' = AuthState(NoUser, FALSE, NoError)
    /\ lastCall' = [NoCall EXCEPT !.op = "signOut",
                      !.outcome = IF offline THEN "" ELSE outcome, !.result = "ok",
                      !.remote = IF offline THEN <<>> ELSE <<"signOut">>]
    /\ ama_cached_user' = CacheUser(auth')
    /\ UNCHANGED <<offline, initDone, listening, offline_users, idSeq>>
    /\ UNCHANGED questionVars
    /\ UNCHANGED <<dbVars, followVars, libVars, searchVars, formVars>>

(* ---------------------------------------------------------------------- *)
(* offlineDB and the remote questions table                                *)
(* ---------------------------------------------------------------------- *)
\* users.find(user => user.id === id)
FindUserById(users, id) ==
  LET Test(u) == u.id = id IN Find(users, Test, NoUser)

\* { ...question, author }
WithAuthor(q, author) ==
  [id |-> q.id, author_id |-> q.author_id, asker_name |-> q.asker_name,
   is_anonymous |-> q.is_anonymous, votes |-> q.votes, author |-> author]

\* the local questions, each joined with its local author
questionsWithAuthors(qs, users) ==
  [i \in 1..Len(qs) |-> WithAuthor(qs[i], FindUserById(users, qs[i].author_id))]

\* the remote load: rows by created_at descending, each joined with the
\* profile of its author_id when it has one
remoteQuestionsWithAuthors(rows) ==
  LET r == Reverse(rows) IN
  [i \in 1..Len(r) |->
     WithAuthor(r[i], IF r[i].author_id # NULL THEN ProfileOf(r[i].author_id) ELSE NoUser)]

\* a questionData that keeps the typed name of every non-anonymous asker
questionData_keepsAskerName(user, askerName, isAnonymous) ==
  [author_id |-> IF user # NoUser THEN user.id ELSE NULL,
   asker_name |-> IF ~isAnonymous THEN askerName ELSE NullName,
   is_anonymous |-> isAnonymous,
   votes |-> 0]

\* the record createQuestion builds from its arguments and auth.user
questionData(user, askerName, isAnonymous) ==
  [author_id |-> IF user # NoUser THEN user.id ELSE NULL,
   asker_name |-> IF user = NoUser /\ ~isAnonymous THEN askerName ELSE NullName,
   is_anonymous |-> isAnonymous,
   votes |-> 0]

\* OfflineDB.saveQuestion: append the record with a generated id
saveQuestion(qs, data, n) ==
  Append(qs, [id |-> generateId(n), author_id |-> data.author_id,
              asker_name |-> data.asker_name, is_anonymous |-> data.is_anonymous,
              votes |-> data.votes])

\* the row the remote insert stores: an undefined property is not sent, so
\* the column takes its default NULL
remoteInsert(rows, data, n) ==
  Append(rows, [id |-> RemoteId(n), author_id |-> data.author_id,
                asker_name |-> IF data.asker_name = Undefined THEN NullName
                               ELSE data.asker_name,
                is_anonymous |-> data.is_anonymous, votes |-> data.votes])

\* OfflineDB.saveVote: append the vote
saveVote(votes, uid, qid, dir) ==
  Append(votes, [user_id |-> uid, target_id |-> qid, target_type |-> "question",
                 vote_type |-> dir])

NoVote == [user_id |-> NULL, target_id |-> NULL, target_type |-> "", vote_type |-> ""]

\* a find that forgets to compare the voter
existingVote_anyUser(votes, uid, qid) ==
  LET Test(v) == v.target_id = qid /\ v.target_type = "question"
  IN Find(votes, Test, NoVote)

\* votes.find(vote => same user, same target, target_type 'question')
existingVote(votes, uid, qid) ==
  LET Test(v) == v.user_id = uid /\ v.target_id = qid /\ v.target_type = "question"
  IN Find(votes, Test, NoVote)

\* questions.map(q => q.id === questionId ? {...q, votes: q.votes + increment} : q)
updatedQuestions(qs, qid, dir) ==
  [i \in 1..Len(qs) |->
     IF qs[i].id = qid
     THEN [qs[i] EXCEPT !.votes = @ + (IF dir = "up" THEN 1 ELSE -1)]
     ELSE qs[i]]

(* ---------------------------------------------------------------------- *)
(* useQuestions                                                            *)
(* ---------------------------------------------------------------------- *)
\* what loadQuestions puts in the hook state, given the remote outcome and
\* the local store it reads
loadResult(outcome, localQs) ==
  LET local == questionsWithAuthors(localQs, offline_users)
      result == safeSupabaseOperation(outcome,
                  JsArray(remoteQuestionsWithAuthors(remote_questions)), JsArray(<<>>))
  IN IF offline THEN [questions |-> local, warned |-> FALSE]
     ELSE IF IsArray(result) THEN [questions |-> result.val, warned |-> FALSE]
     ELSE [questions |-> local, warned |-> TRUE]

\* loadQuestions()
loadQuestions ==
  \E outcome \in {"ok", "fail"} :
    /\ offline => outcome = "ok"
    /\ LET r == loadResult(outcome, offline_questions) IN
       /\ questions' = r.questions
       /\ lastCall' = [NoCall EXCEPT !.op = "loadQuestions",
                         !.outcome = IF offline THEN "" ELSE outcome,
                         !.result = "ok", !.warned = r.warned,
                         !.remote = IF offline THEN <<>> ELSE <<"select questions">>]
    /\ loading' = FALSE
    /\ error' = NoError
    /\ UNCHANGED <<offline, auth, initDone, listening, session, authEvents,
                   ama_cached_user, offline_current_user, offline_users,
                   offline_questions, offline_votes, idSeq, remote_questions>>
    /\ UNCHANGED <<dbVars, followVars, libVars, searchVars, formVars>>

\* a local branch that puts the saved record at the end of the list
createLocal_appendsToList(data, base) ==
  LET qs == saveQuestion(offline_questions, data, idSeq)
      newQuestion == qs[Len(qs)]
  IN /\ Len(offline_questions) < MaxLocalQuestions
     /\ offline_questions' = qs
     /\ idSeq' = idSeq + 1
     /\ questions' = questions \o <<WithAuthor(newQuestion, auth.user)>>
     /\ lastCall' = [base EXCEPT !.result = "ok", !.ret = newQuestion.id]

\* the local branch of createQuestion: save to the local store and prepend
\* the saved record, with auth.user as its author, to the list
createLocal(data, base) ==
  LET qs == saveQuestion(offline_questions, data, idSeq)
      newQuestion == qs[Len(qs)]
  IN /\ Len(offline_questions) < MaxLocalQuestions
     /\ offline_questions' = qs
     /\ idSeq' = idSeq + 1
     /\ questions' = <<WithAuthor(newQuestion, auth.user)>> \o questions
     /\ lastCall' = [base EXCEPT !.result = "ok", !.ret = newQuestion.id]

\* createQuestion(title, content, tags, askerName, isAnonymous) up to what
\* its caller's component holds; the remote
\* insert succeeds ("ok"), fails ("fail"), or is committed and the profile
\* read that follows it rejects ("profile_throws")
createQuestionCall(askerName, isAnonymous, outcome) ==
    LET data == questionData(auth.user, askerName, isAnonymous)
        base == [NoCall EXCEPT !.op = "createQuestion"]
        rows == remoteInsert(remote_questions, data, Len(remote_questions) + 1)
        row == rows[Len(rows)]
        \* questions.author_id references auth.users(id)
        committed == outcome # "fail"
    IN /\ offline => outcome = "ok"
       /\ (~offline /\ committed) =>
             /\ Len(remote_questions) < MaxRemoteQuestions
             /\ (data.author_id = NULL \/ ProfileOf(data.author_id) # NoUser)
       /\ (outcome = "profile_throws") => (~offline /\ auth.user # NoUser)
       /\ error' = NoError
       /\ IF offline
          THEN /\ createLocal(data, base)
               /\ UNCHANGED remote_questions
          ELSE LET value == JsObject(WithAuthor(row,
                              IF auth.user # NoUser THEN ProfileOf(auth.user.id) ELSE NoUser))
                   result == safeSupabaseOperation(outcome, value, JsNull)
                   called == IF auth.user # NoUser /\ committed
                             THEN <<"insert question", "select profile">>
                             ELSE <<"insert question">>
               IN /\ remote_questions' = IF committed THEN rows ELSE remote_questions
                  /\ IF Truthy(result)
                     THEN /\ questions' = <<result.val>> \o questions
                          /\ lastCall' = [base EXCEPT !.outcome = outcome, !.result = "ok",
                                                         !.remote = called, !.ret = row.id]
                          /\ UNCHANGED <<offline_questions, idSeq>>
                     ELSE createLocal(data, [base EXCEPT !.outcome = outcome,
                                                          !.warned = TRUE, !.remote = called])
       /\ UNCHANGED <<offline, auth, initDone, listening, session, authEvents,
                      ama_cached_user, offline_current_user, offline_users,
                      offline_votes, loading>>
       /\ UNCHANGED <<dbVars, followVars, libVars, searchVars>>

createQuestion ==
  \E askerName \in AskerNames, isAnonymous \in BOOLEAN,
     outcome \in {"ok", "fail", "profile_throws"} :
    /\ createQuestionCall(askerName, isAnonymous, outcome)
    /\ UNCHANGED formVars

\* ids of the questions a card can be shown for
KnownQuestionIds ==
  {offline_questions[i].id : i \in 1..Len(offline_questions)} \cup
  {remote_questions[i].id : i \in 1..Len(remote_questions)}

\* the local branch of voteOnQuestion, then its loadQuestions() refresh
voteLocal(qid, dir, loadOutcome, base) ==
  LET ev == existingVote(offline_votes, auth.user.id, qid) IN
  IF ev # NoVote /\ ev.vote_type = dir
  THEN /\ loadOutcome = "ok"
       /\ lastCall' = [base EXCEPT !.result = "noop"]
       /\ UNCHANGED <<offline_votes, offline_questions, questions, loading>>
  ELSE LET qs == updatedQuestions(offline_questions, qid, dir)
           r == loadResult(loadOutcome, qs)
       IN /\ Len(offline_votes) < MaxLocalVotes
          /\ offline_votes' = saveVote(offline_votes, auth.user.id, qid, dir)
          /\ offline_questions' = qs
          /\ questions' = r.questions
          /\ loading' = FALSE
          /\ lastCall' = [base EXCEPT !.result = "ok",
                             !.remote = IF offline THEN base.remote
                                        ELSE base.remote \o <<"select questions">>]

\* voteOnQuestion without a signed-in user: the error toast, then
\* throw new Error('Must be logged in to vote')
voteRejected(qid, dir, outcome, loadOutcome) ==
  /\ outcome = "ok" /\ loadOutcome = "ok"
  /\ lastCall' = [NoCall EXCEPT !.op = "voteOnQuestion", !.result = "threw",
                                 !.message = "Must be logged in to vote"]
  /\ UNCHANGED <<offline_votes, offline_questions, questions, loading, error>>

\* voteOnQuestion past the sign-in check: the try block
voteAsUser(qid, dir, outcome, loadOutcome) ==
  LET base == [NoCall EXCEPT !.op = "voteOnQuestion"] IN
  /\ error' = NoError
  /\ offline => (outcome = "ok" /\ loadOutcome = "ok")
  /\ IF offline
     THEN voteLocal(qid, dir, loadOutcome, base)
     ELSE LET result == safeSupabaseOperation(outcome, JsBool(TRUE), JsBool(FALSE))
              rpc == [base EXCEPT !.outcome = outcome,
                                  !.remote = <<"rpc vote_on_question">>]
          IN IF Truthy(result)
             THEN /\ questions' = loadResult(loadOutcome, offline_questions).questions
                  /\ loading' = FALSE
                  /\ lastCall' = [rpc EXCEPT !.result = "ok",
                                     !.remote = @ \o <<"select questions">>]
                  /\ UNCHANGED <<offline_votes, offline_questions>>
             ELSE voteLocal(qid, dir, loadOutcome, [rpc EXCEPT !.warned = TRUE])

\* a voteOnQuestion that lacks the sign-in check
voteOnQuestionCall_noSignInCheck(qid, dir, outcome, loadOutcome) ==
  /\ voteAsUser(qid, dir, outcome, loadOutcome)
  /\ UNCHANGED <<offline, auth, initDone, listening, session, authEvents,
                 ama_cached_user, offline_current_user, offline_users,
                 idSeq, remote_questions>>
  /\ UNCHANGED <<dbVars, followVars, libVars, searchVars, formVars>>

\* voteOnQuestion(questionId, voteType) with the remote outcomes of its rpc
\* and of the refresh
voteOnQuestionCall(qid, dir, outcome, loadOutcome) ==
  /\ IF auth.user = NoUser
     THEN voteRejected(qid, dir, outcome, loadOutcome)
     ELSE voteAsUser(qid, dir, outcome, loadOutcome)
  /\ UNCHANGED <<offline, auth, initDone, listening, session, authEvents,
                 ama_cached_user, offline_current_user, offline_users,
                 idSeq, remote_questions>>
  /\ UNCHANGED <<dbVars, followVars, libVars, searchVars, formVars>>

voteOnQuestion ==
  \E qid \in KnownQuestionIds, dir \in VoteTypes,
     outcome \in {"ok", "fail"}, loadOutcome \in {"ok", "fail"} :
    voteOnQuestionCall(qid, dir, outcome, loadOutcome)

(* ---------------------------------------------------------------------- *)
(* The database: policies and triggers on answers                          *)
(* ---------------------------------------------------------------------- *)
MaxAnswers == 2

U1 == RemoteId(1)
U2 == RemoteId(2)
U3 == RemoteId(3)
DbUsers == {U1, U2, U3}
Q1 == <<"question", 1>>
Q2 == <<"question", 2>>
AnswerId(n) == <<"answer", n>>

\* the question_shares rows: one share of Q1 per combination of the flags
Shares ==
  {[share_code |-> "s" \o a \o r, question_id |-> Q1,
    allow_anonymous |-> (a = "1"), require_auth |-> (r = "1")] :
     a \in {"0", "1"}, r \in {"0", "1"}}
NoShare == [share_code |-> "", question_id |-> NULL,
            allow_anonymous |-> FALSE, require_auth |-> FALSE]

\* SQL `a = b` used as a policy expression: it passes only when it is true,
\* and a comparison with NULL is not
SqlEq(a, b) == a # NULL /\ b # NULL /\ a = b

\* "Authenticated users can create answers": WITH CHECK (auth.uid() = author_id)
answers_insert_check(uid, row) == SqlEq(uid, row.author_id)
\* "Users can update their own answers": USING (auth.uid() = author_id)
answers_update_using(uid, row) == SqlEq(uid, row.author_id)
\* "Users can delete their own answers": USING (auth.uid() = author_id)
answers_delete_using(uid, row) == SqlEq(uid, row.author_id)
\* "Users can update their own questions": USING (auth.uid() = author_id)
questions_update_using(uid, row) == SqlEq(uid, row.author_id)
\* "Users can update their own profile": USING (auth.uid() = id)
profiles_update_using(uid, id) == SqlEq(uid, id)

\* UPDATE questions SET answer_count = answer_count + d WHERE id = qid, run
\* by the trigger function with the rights of the requester uid
UpdateAnswerCount(qs, uid, qid, d) ==
  [q \in DOMAIN qs |->
     IF q = qid /\ questions_update_using(uid, qs[q])
     THEN [qs[q] EXCEPT !.answer_count = @ + d] ELSE qs[q]]

\* UPDATE profiles SET answers_count = answers_count + d WHERE id = pid
UpdateAnswersCount(ps, uid, pid, d) ==
  [p \in DOMAIN ps |->
     IF p = pid /\ profiles_update_using(uid, p)
     THEN [ps[p] EXCEPT !.answers_count = @ + d] ELSE ps[p]]

\* update_answer_count(): AFTER INSERT OR DELETE ON answers, FOR EACH ROW
update_answer_count(op, uid, row, qs, ps) ==
  LET d == IF op = "INSERT" THEN 1 ELSE -1 IN
  [questions |-> UpdateAnswerCount(qs, uid, row.question_id, d),
   profiles |-> UpdateAnswersCount(ps, uid, row.author_id, d)]

\* update_accepted_answer_count(): AFTER UPDATE ON answers, FOR EACH ROW
update_accepted_answer_count(uid, old, new, qs, ps) ==
  IF new.is_accepted /\ ~old.is_accepted
  THEN [profiles |-> [p \in DOMAIN ps |->
                        IF p = new.author_id /\ profiles_update_using(uid, p)
                        THEN [ps[p] EXCEPT !.accepted_answers_count = @ + 1] ELSE ps[p]],
        questions |-> [q \in DOMAIN qs |->
                        IF q = new.question_id /\ questions_update_using(uid, qs[q])
                        THEN [qs[q] EXCEPT !.is_answered = TRUE] ELSE qs[q]]]
  ELSE IF ~new.is_accepted /\ old.is_accepted
  THEN [profiles |-> [p \in DOMAIN ps |->
                        IF p = new.author_id /\ profiles_update_using(uid, p)
                        THEN [ps[p] EXCEPT !.accepted_answers_count = @ - 1] ELSE ps[p]],
        questions |-> qs]
  ELSE [profiles |-> ps, questions |-> qs]

\* INSERT INTO answers by requester uid: the policy check, then the trigger
InsertAnswer(uid, row) ==
  /\ answers_insert_check(uid, row)
  /\ answerSeq <= MaxAnswers
  /\ LET t == update_answer_count("INSERT", uid, row, db_questions, db_profiles) IN
     /\ db_answers' = db_answers \cup {[row EXCEPT !.id = AnswerId(answerSeq)]}
     /\ answerSeq' = answerSeq + 1
     /\ db_questions' = t.questions
     /\ db_profiles' = t.profiles

NewAnswer(qid, author) ==
  [id |-> NULL, question_id |-> qid, author_id |-> author, is_accepted |-> FALSE]

DbQuestionAnswers(qid) == {a \in db_answers : a.question_id = qid}

NoDb == [op |-> "none", uid |-> NULL, result |-> "", rows |-> 0]

\* responseContent values and String.prototype.trim on them
Contents == {"", " ", "hi"}
Trim(c) == IF c = " " THEN "" ELSE c

\* QuestionDetailPage.handleSubmitAnswer by the signed-in user u on question q
handleSubmitAnswer ==
  \E u \in DbUsers, q \in DOMAIN db_questions :
    /\ InsertAnswer(u, NewAnswer(q, u))
    /\ lastDb' = [NoDb EXCEPT !.op = "handleSubmitAnswer", !.uid = u,
                                !.result = "ok", !.rows = 1]
    /\ UNCHANGED sharePage
    /\ UNCHANGED <<clientVars, followVars, libVars, searchVars, formVars>>

\* DELETE FROM answers WHERE id = a.id, requested by uid
deleteAnswer ==
  \E uid \in DbUsers, a \in db_answers :
    /\ IF answers_delete_using(uid, a)
       THEN LET t == update_answer_count("DELETE", uid, a, db_questions, db_profiles) IN
            /\ db_answers' = db_answers \ {a}
            /\ db_questions' = t.questions
            /\ db_profiles' = t.profiles
            /\ lastDb' = [NoDb EXCEPT !.op = "deleteAnswer", !.uid = uid,
                                        !.result = "ok", !.rows = 1]
       ELSE /\ lastDb' = [NoDb EXCEPT !.op = "deleteAnswer", !.uid = uid,
                                        !.result = "ok", !.rows = 0]
            /\ UNCHANGED <<db_answers, db_questions, db_profiles>>
    /\ UNCHANGED <<answerSeq, sharePage>>
    /\ UNCHANGED <<clientVars, followVars, libVars, searchVars, formVars>>

\* QuestionDetailPage.handleAcceptAnswer(answerId) on the page of question q,
\* with u the signed-in user (NULL: nobody) and a the answer of that id
handleAcceptAnswerCall(u, q, a) ==
  /\ IF u = NULL
     THEN /\ lastDb' = [NoDb EXCEPT !.op = "handleAcceptAnswer", !.uid = u,
                                      !.result = "noop"]
          /\ UNCHANGED <<db_answers, db_questions, db_profiles>>
     ELSE IF db_questions[q].author_id # u /\ ~db_profiles[u].is_moderator
     THEN /\ lastDb' = [NoDb EXCEPT !.op = "handleAcceptAnswer", !.uid = u,
                                      !.result = "noop"]
          /\ UNCHANGED <<db_answers, db_questions, db_profiles>>
     ELSE IF answers_update_using(u, a)
     THEN LET new == [a EXCEPT !.is_accepted = TRUE]
              t == update_accepted_answer_count(u, a, new, db_questions, db_profiles)
          IN /\ db_answers' = (db_answers \ {a}) \cup {new}
             /\ db_questions' = t.questions
             /\ db_profiles' = t.profiles
             /\ lastDb' = [NoDb EXCEPT !.op = "handleAcceptAnswer", !.uid = u,
                                         !.result = "ok", !.rows = 1]
     ELSE /\ lastDb' = [NoDb EXCEPT !.op = "handleAcceptAnswer", !.uid = u,
                                      !.result = "ok", !.rows = 0]
          /\ UNCHANGED <<db_answers, db_questions, db_profiles>>
  /\ UNCHANGED <<answerSeq, sharePage>>
  /\ UNCHANGED <<clientVars, followVars, libVars, searchVars, formVars>>

handleAcceptAnswer ==
  \E u \in DbUsers \cup {NULL}, q \in DOMAIN db_questions :
    \E a \in DbQuestionAnswers(q) :
      handleAcceptAnswerCall(u, q, a)

\* SharePage mounted on a share code by a visitor u: loadSharedQuestion
loadSharedQuestion ==
  \E s \in Shares, u \in {NULL, U2} :
    /\ sharePage' = [share |-> s, user |-> u, responseSubmitted |-> FALSE, error |-> ""]
    /\ lastDb' = [NoDb EXCEPT !.op = "loadSharedQuestion", !.uid = u, !.result = "ok"]
    /\ UNCHANGED <<db_answers, db_questions, db_profiles, answerSeq>>
    /\ UNCHANGED <<clientVars, followVars, libVars, searchVars, formVars>>

\* SharePage.handleSubmitResponse with the typed response content
handleSubmitResponse ==
  \E content \in Contents :
    LET s == sharePage.share
        u == sharePage.user
        row == NewAnswer(s.question_id, u)
        call == [NoDb EXCEPT !.op = "handleSubmitResponse", !.uid = u]
    IN /\ s # NoShare
       /\ IF Trim(content) = ""
          THEN /\ lastDb' = [call EXCEPT !.result = "noop"]
               /\ UNCHANGED <<db_answers, db_questions, db_profiles, answerSeq, sharePage>>
          ELSE IF s.require_auth /\ u = NULL
          THEN /\ sharePage' = [sharePage EXCEPT
                    !.error = "You must be signed in to respond to this question"]
               /\ lastDb' = [call EXCEPT !.result = "error"]
               /\ UNCHANGED <<db_answers, db_questions, db_profiles, answerSeq>>
          ELSE IF ~s.allow_anonymous /\ u = NULL
          THEN /\ sharePage' = [sharePage EXCEPT
                    !.error = "Anonymous responses are not allowed for this question"]
               /\ lastDb' = [call EXCEPT !.result = "error"]
               /\ UNCHANGED <<db_answers, db_questions, db_profiles, answerSeq>>
          ELSE IF answers_insert_check(u, row)
          THEN /\ InsertAnswer(u, row)
               /\ sharePage' = [sharePage EXCEPT !.responseSubmitted = TRUE]
               /\ lastDb' = [call EXCEPT !.result = "ok", !.rows = 1]
          ELSE /\ sharePage' = [sharePage EXCEPT !.error = "Failed to submit response"]
               /\ lastDb' = [call EXCEPT !.result = "error"]
               /\ UNCHANGED <<db_answers, db_questions, db_profiles, answerSeq>>
       /\ UNCHANGED <<clientVars, followVars, libVars, searchVars, formVars>>

(* ---------------------------------------------------------------------- *)
(* The database: insert policies on questions                              *)
(* ---------------------------------------------------------------------- *)
MaxDbQuestions == 5

QuestionId(n) == <<"question", n>>

\* "Anyone can create questions": FOR INSERT WITH CHECK (true)
questions_insert_check_anyone(uid, row) == TRUE
\* "Authenticated users can create questions":
\* FOR INSERT WITH CHECK (auth.uid() = author_id)
questions_insert_check_authenticated(uid, row) == SqlEq(uid, row.author_id)
\* the policies are permissive: a row passes when one of them does
questions_insert_check(uid, row) ==
  \/ questions_insert_check_anyone(uid, row)
  \/ questions_insert_check_authenticated(uid, row)

\* INSERT INTO questions (..., author_id) requested by uid (NULL: the anon
\* key without a session); author_id references auth.users(id)
insertQuestion ==
  \E uid \in DbUsers \cup {NULL}, author \in DbUsers \cup {NULL} :
    LET row == [author_id |-> author, answer_count |-> 0, is_answered |-> FALSE]
        id == QuestionId(Cardinality(DOMAIN db_questions) + 1)
        call == [NoDb EXCEPT !.op = "insertQuestion", !.uid = uid]
    IN /\ Cardinality(DOMAIN db_questions) < MaxDbQuestions
       /\ IF questions_insert_check(uid, row)
          THEN /\ db_questions' = [q \in DOMAIN db_questions \cup {id} |->
                                     IF q = id THEN row ELSE db_questions[q]]
               /\ lastDb' = [call EXCEPT !.result = "ok", !.rows = 1]
          ELSE /\ lastDb' = [call EXCEPT !.result = "error"]
               /\ UNCHANGED db_questions
       /\ UNCHANGED <<db_profiles, db_answers, answerSeq, sharePage>>
       /\ UNCHANGED <<clientVars, followVars, libVars, searchVars, formVars>>

(* ---------------------------------------------------------------------- *)
(* The database: follows                                                   *)
(* ---------------------------------------------------------------------- *)
\* "Users can create follows": WITH CHECK (auth.uid() = follower_id)
follows_insert_check(uid, row) == SqlEq(uid, row.follower_id)
\* "Users can delete their own follows": USING (auth.uid() = follower_id)
follows_delete_using(uid, row) == SqlEq(uid, row.follower_id)

\* UPDATE profiles SET following_count = following_count + d WHERE id = pid,
\* run by the trigger function with the rights of the requester uid
UpdateFollowingCount(cs, uid, pid, d) ==
  [p \in DOMAIN cs |->
     IF p = pid /\ profiles_update_using(uid, p)
     THEN [cs[p] EXCEPT !.following_count = @ + d] ELSE cs[p]]

\* UPDATE profiles SET followers_count = followers_count + d WHERE id = pid
UpdateFollowersCount(cs, uid, pid, d) ==
  [p \in DOMAIN cs |->
     IF p = pid /\ profiles_update_using(uid, p)
     THEN [cs[p] EXCEPT !.followers_count = @ + d] ELSE cs[p]]

\* update_follow_counts(): AFTER INSERT OR DELETE ON follows, FOR EACH ROW
update_follow_counts(op, uid, row, cs) ==
  LET d == IF op = "INSERT" THEN 1 ELSE -1 IN
  UpdateFollowersCount(UpdateFollowingCount(cs, uid, row.follower_id, d),
                       uid, row.following_id, d)

\* INSERT INTO follows (follower_id, following_id), requested by uid
insertFollow ==
  \E uid \in DbUsers, follower \in DbUsers, following \in DbUsers :
    LET row == [follower_id |-> follower, following_id |-> following]
        call == [NoDb EXCEPT !.op = "insertFollow", !.uid = uid]
    IN /\ IF follows_insert_check(uid, row) /\ row \notin db_follows
          THEN /\ db_follows' = db_follows \cup {row}
               /\ db_follow_counts' = update_follow_counts("INSERT", uid, row, db_follow_counts)
               /\ lastDb' = [call EXCEPT !.result = "ok", !.rows = 1]
          ELSE \* the policy or UNIQUE(follower_id, following_id) rejects the row
               /\ lastDb' = [call EXCEPT !.result = "error"]
               /\ UNCHANGED followVars
       /\ UNCHANGED <<db_profiles, db_questions, db_answers, answerSeq, sharePage>>
       /\ UNCHANGED <<clientVars, libVars, searchVars, formVars>>

\* DELETE FROM follows WHERE the row's key, requested by uid
deleteFollow ==
  \E uid \in DbUsers, row \in db_follows :
    LET call == [NoDb EXCEPT !.op = "deleteFollow", !.uid = uid] IN
    /\ IF follows_delete_using(uid, row)
       THEN /\ db_follows' = db_follows \ {row}
            /\ db_follow_counts' = update_follow_counts("DELETE", uid, row, db_follow_counts)
            /\ lastDb' = [call EXCEPT !.result = "ok", !.rows = 1]
       ELSE /\ lastDb' = [call EXCEPT !.result = "ok", !.rows = 0]
            /\ UNCHANGED followVars
    /\ UNCHANGED <<db_profiles, db_questions, db_answers, answerSeq, sharePage>>
    /\ UNCHANGED <<clientVars, libVars, searchVars, formVars>>

(* ---------------------------------------------------------------------- *)
(* useAuthProvider calling the backend directly                            *)
(* ---------------------------------------------------------------------- *)
\* The version of the hook that awaits supabase itself: no
\* safeSupabaseOperation, no cached user, the listener subscribed by the
\* mount effect.

\* an identity the provider holds a session for that has no profiles row
NewIdentity == RemoteId(4)
\* the profiles row initAuth inserts for such an identity
NewProfile == [id |-> NewIdentity, email |-> "b@x"]

\* the mount effect: initAuth() and the onAuthStateChange subscription.
\* getSession resolves ("ok") or rejects ("fail"); the insert of a missing
\* profile row succeeds ("ok") or returns an insertError ("fail")
initAuthDirect ==
  /\ ~initDone
  /\ initDone' = TRUE
  /\ \E outcome \in {"ok", "fail"}, insert \in {"ok", "fail"} :
       LET cur == offline_current_user
           found == ProfileOf(session)
           missing == ~offline /\ outcome = "ok" /\ session # NULL /\ found = NoUser
           profile == IF found # NoUser THEN found
                      ELSE IF insert = "ok" THEN NewProfile ELSE NoUser
       IN /\ offline => outcome = "ok"
          /\ ~missing => insert = "ok"
          /\ auth' = IF offline
                     THEN (IF cur # NoUser THEN AuthState(cur, FALSE, NoError)
                                           ELSE [auth EXCEPT !.loading = FALSE])
                     ELSE IF outcome = "fail"
                     THEN AuthState(NoUser, FALSE, "Authentication error")
                     ELSE IF session # NULL
                     THEN (IF profile # NoUser THEN AuthState(profile, FALSE, NoError)
                                               ELSE auth)
                     ELSE [auth EXCEPT !.loading = FALSE]
          /\ lastCall' = [NoCall EXCEPT !.op = "initAuth",
                            !.outcome = IF offline THEN ""
                                        ELSE IF missing THEN "insert " \o insert
                                        ELSE outcome,
                            !.result = "ok",
                            !.remote = IF offline THEN <<>>
                                       ELSE IF outcome = "fail" \/ session = NULL
                                       THEN <<"getSession">>
                                       ELSE IF missing
                                       THEN <<"getSession", "select profile", "insert profile">>
                                       ELSE <<"getSession", "select profile">>]
  /\ listening' = ~offline
  /\ UNCHANGED <<offline, session, authEvents, ama_cached_user, offline_current_user,
                 offline_users, idSeq>>
  /\ UNCHANGED questionVars
  /\ UNCHANGED <<dbVars, followVars, libVars, searchVars, formVars>>

\* the onAuthStateChange callback
onAuthStateChangeDirect ==
  /\ listening
  /\ authEvents # <<>>
  /\ \E outcome \in {"ok", "fail"} :
       LET ev == Head(authEvents) IN
       /\ (ev.type = "SIGNED_OUT" \/ ev.user = NULL) => outcome = "ok"
       /\ auth' = IF ev.type = "SIGNED_OUT" \/ ev.user = NULL
                  THEN AuthState(NoUser, FALSE, NoError)
                  ELSE IF outcome = "ok" /\ ProfileOf(ev.user) # NoUser
                       THEN AuthState(ProfileOf(ev.user), FALSE, NoError)
                       ELSE auth
       /\ lastCall' = [NoCall EXCEPT !.op = "onAuthStateChange",
                         !.outcome = outcome,
                         !.result = "ok"]
  /\ authEvents' = Tail(authEvents)
  /\ UNCHANGED <<offline, initDone, listening, session, ama_cached_user,
                 offline_current_user, offline_users, idSeq>>
  /\ UNCHANGED questionVars
  /\ UNCHANGED <<dbVars, followVars, libVars, searchVars, formVars>>

\* signIn(email, password): loading is set, then the credentials are checked
signInDirect ==
  \E email \in Emails, outcome \in {"ok", "invalid"} :
    LET call == [NoCall EXCEPT !.op = "signIn"]
        user == FindUserByEmail(offline_users, email)
    IN /\ (outcome = "ok") => (offline \/ \E p \in RemoteProfiles : p.email = email)
       /\ offline => outcome = "ok"
       /\ IF offline
          THEN /\ offline_current_user' = IF user # NoUser THEN user ELSE offline_current_user
               /\ auth' = IF user # NoUser THEN AuthState(user, FALSE, NoError)
                          ELSE AuthState(auth.user, FALSE, "Invalid credentials")
               /\ lastCall' = IF user # NoUser THEN [call EXCEPT !.result = "ok"]
                              ELSE [call EXCEPT !.result = "threw",
                                                !.message = "Invalid credentials"]
               /\ UNCHANGED <<session, authEvents>>
          ELSE IF outcome = "ok"
          THEN /\ Len(authEvents) < MaxAuthEvents
               /\ LET p == CHOOSE p \in RemoteProfiles : p.email = email IN
                    /\ session' = p.id
                    /\ authEvents' = IF listening
                                       THEN Append(authEvents, [type |-> "SIGNED_IN", user |-> p.id])
                                       ELSE authEvents
               \* the listener is left to end the loading state
               /\ auth' = AuthState(auth.user, TRUE, NoError)
               /\ lastCall' = [call EXCEPT !.outcome = outcome, !.result = "ok",
                                           !.remote = <<"signInWithPassword">>]
               /\ UNCHANGED offline_current_user
          ELSE /\ auth' = AuthState(auth.user, FALSE, "Invalid login credentials")
               /\ lastCall' = [call EXCEPT !.outcome = outcome, !.result = "threw",
                                           !.message = "Invalid login credentials",
                                           !.remote = <<"signInWithPassword">>]
               /\ UNCHANGED <<session, authEvents, offline_current_user>>
       /\ UNCHANGED <<offline, initDone, listening, ama_cached_user, offline_users, idSeq>>
       /\ UNCHANGED questionVars
       /\ UNCHANGED <<dbVars, followVars, libVars, searchVars, formVars>>

\* signOut(): the remote sign-out resolves ("ok") or rejects ("fail")
signOutDirect ==
  \E outcome \in {"ok", "fail"} :
    LET call == [NoCall EXCEPT !.op = "signOut"] IN
    /\ offline => outcome = "ok"
    /\ offline_current_user' = IF offline THEN NoUser ELSE offline_current_user
    /\ session' = IF ~offline /\ outcome = "ok" THEN NULL ELSE session
    /\ authEvents' =
         IF ~offline /\ outcome = "ok" /\ listening /\ session # NULL
            /\ Len(authEvents) < MaxAuthEvents
         THEN Append(authEvents, [type |-> "SIGNED_OUT", user |-> NULL])
         ELSE authEvents
    /\ auth' = IF outcome = "ok" THEN AuthState(NoUser, FALSE, NoError)
               ELSE AuthState(auth.user, FALSE, "Sign out failed")
    /\ lastCall' = IF outcome = "ok"
                   THEN [call EXCEPT !.outcome = IF offline THEN "" ELSE outcome,
                                     !.result = "ok",
                                     !.remote = IF offline THEN <<>> ELSE <<"signOut">>]
                   ELSE [call EXCEPT !.outcome = outcome, !.result = "error",
                                     !.message = "Sign out failed", !.remote = <<"signOut">>]
    /\ UNCHANGED <<offline, initDone, listening, ama_cached_user, offline_users, idSeq>>
    /\ UNCHANGED questionVars
    /\ UNCHANGED <<dbVars, followVars, libVars, searchVars, formVars>>

(* ---------------------------------------------------------------------- *)
(* useSearch under GlobalFeed                                              *)
(* ---------------------------------------------------------------------- *)
\* A searchDatabase call in online mode awaits the backend, and the timer of
\* the next search can fire meanwhile: the call is two steps, its start and
\* the continuation that runs when the backend has answered. In offline
\* mode the call awaits only resolved promises and ends before any timer.
MaxSearches == 3

\* search terms and titles are sequences of characters
SearchTerms == {<<>>, <<" ">>, <<"a">>, <<"b">>}
\* titles of the questions in the remote table and in the local store
RemoteTitles == <<(<<"a", "x">>), (<<"b", "x">>)>>
LocalTitles == <<(<<"a", "b">>)>>

RECURSIVE trim(_)
\* String.prototype.trim
trim(s) ==
  IF s = <<>> THEN s
  ELSE IF Head(s) = " " THEN trim(Tail(s))
  ELSE IF s[Len(s)] = " " THEN trim(SubSeq(s, 1, Len(s) - 1))
  ELSE s

\* String.prototype.includes
includes(s, sub) ==
  \E i \in 0..(Len(s) - Len(sub)) : SubSeq(s, i + 1, i + Len(sub)) = sub

\* the questions whose title contains the term (title.ilike.%term% remotely,
\* title.toLowerCase().includes(searchLower) locally)
Matching(titles, term) ==
  LET titleMatch(t) == includes(t, term) IN SelectSeq(titles, titleMatch)

SearchResults(qs, l, e) == [questions |-> qs, loading |-> l, error |-> e]
NoResults == SearchResults(<<>>, FALSE, NoError)

\* what a searchDatabase call for term puts in results when the backend
\* answered ("ok") or could not be reached ("fail": the local search)
searchResults(term, outcome) ==
  LET remote == JsObject(SearchResults(Matching(RemoteTitles, term), FALSE, NoError))
      result == safeSupabaseOperation(outcome, remote, JsNull)
  IN IF Truthy(result) THEN result.val
     ELSE SearchResults(Matching(LocalTitles, term), FALSE, NoError)

\* the search box changes: setSearchTerm, and the effect re-arms its timer
setSearchTerm ==
  \E term \in SearchTerms :
    /\ term # searchTerm
    /\ searchTerm' = term
    /\ debounce' = TRUE
    /\ UNCHANGED <<inFlight, searchSeq, results, isSearching>>
    /\ UNCHANGED <<clientVars, dbVars, followVars, libVars, formVars>>

\* the timer fires: clearSearch for a blank term, else searchDatabase up to
\* its await
debounceFires ==
  /\ debounce
  /\ debounce' = FALSE
  /\ IF trim(searchTerm) = <<>>
     THEN /\ results' = NoResults
          /\ isSearching' = FALSE
          /\ UNCHANGED <<inFlight, searchSeq>>
     ELSE /\ searchSeq < MaxSearches
          /\ searchSeq' = searchSeq + 1
          /\ IF offline
             THEN /\ results' = SearchResults(Matching(LocalTitles, searchTerm), FALSE, NoError)
                  /\ isSearching' = FALSE
                  /\ UNCHANGED inFlight
             ELSE /\ results' = [results EXCEPT !.loading = TRUE, !.error = NoError]
                  /\ isSearching' = TRUE
                  /\ inFlight' = inFlight \cup {[seq |-> searchSeq + 1, term |-> searchTerm]}
  /\ UNCHANGED searchTerm
  /\ UNCHANGED <<clientVars, dbVars, followVars, libVars, formVars>>

\* the backend answers one of the calls in flight: the rest of
\* searchDatabase, then .finally(() => setIsSearching(false))
searchCompletes ==
  \E call \in inFlight, outcome \in {"ok", "fail"} :
    /\ inFlight' = inFlight \ {call}
    /\ results' = searchResults(call.term, outcome)
    /\ isSearching' = FALSE
    /\ UNCHANGED <<searchTerm, debounce, searchSeq>>
    /\ UNCHANGED <<clientVars, dbVars, followVars, libVars, formVars>>

(* ---------------------------------------------------------------------- *)
(* AskQuestionPage                                                         *)
(* ---------------------------------------------------------------------- *)
\* what the visitor can type as a name
FormNames == {"", " ", "Ann"}

\* useState({..., askerName: '', isAnonymous: false})
InitialFormData == [askerName |-> "", isAnonymous |-> JsBool(FALSE)]

\* the checkbox as rendered: checked={formData.isAnonymous}
Checked(fd) == Truthy(fd.isAnonymous)

\* Boolean.prototype.toString, as a string value
BoolToString(b) == JsString(IF b THEN Str_true ELSE Str_false)

\* the fields validateForm rejects; target user, title and content are
\* taken as filled in
validateForm(user, fd) ==
  IF user = NoUser /\ ~Truthy(fd.isAnonymous) /\ Trim(fd.askerName) = ""
  THEN {"askerName"} ELSE {}

\* handleInputChange(field, value) from the guest's block of the form: the
\* checkbox passes e.target.checked.toString(), the name input its text
handleInputChange ==
  /\ auth.user = NoUser
  /\ \/ /\ formData' = [formData EXCEPT !.isAnonymous = BoolToString(~Checked(formData))]
        /\ errors' = errors \ {"isAnonymous"}
     \/ \E name \in FormNames :
          /\ ~Truthy(formData.isAnonymous)
          /\ name # formData.askerName
          /\ formData' = [formData EXCEPT !.askerName = name]
          /\ errors' = errors \ {"askerName"}
  /\ lastCall' = [NoCall EXCEPT !.op = "handleInputChange", !.result = "ok"]
  /\ UNCHANGED <<offline, auth, initDone, listening, session, authEvents,
                 ama_cached_user, offline_current_user, offline_users, idSeq>>
  /\ UNCHANGED questionVars
  /\ UNCHANGED <<dbVars, followVars, libVars, searchVars>>

\* handleSubmit with the remote outcome of the createQuestion it makes
handleSubmitCall(outcome) ==
  LET newErrors == validateForm(auth.user, formData) IN
  /\ errors' = newErrors
  /\ UNCHANGED formData
  /\ IF newErrors # {}
     THEN /\ outcome = "ok"
          /\ lastCall' = [NoCall EXCEPT !.op = "handleSubmit", !.result = "noop"]
          /\ UNCHANGED <<offline, auth, initDone, listening, session, authEvents,
                         ama_cached_user, offline_current_user, offline_users, idSeq>>
          /\ UNCHANGED questionVars
          /\ UNCHANGED <<dbVars, followVars, libVars, searchVars>>
     ELSE \* await createQuestion(questionTitle, formData.content, tags)
          createQuestionCall(Undefined, FALSE, outcome)

\* AskQuestionPage.handleSubmit
handleSubmit ==
  \E outcome \in {"ok", "fail", "profile_throws"} : handleSubmitCall(outcome)

(* ---------------------------------------------------------------------- *)
(* Specifications                                                          *)
(* ---------------------------------------------------------------------- *)
vars == <<clientVars, dbVars, followVars, libVars, searchVars, formVars>>

CachedUsers == {NoUser} \cup RemoteProfiles

\* the database as the migrations and the first sign-ups leave it
InitDb ==
  /\ db_profiles = [u \in DbUsers |->
                      [is_moderator |-> (u = U3), answers_count |-> 0,
                       accepted_answers_count |-> 0]]
  /\ db_questions = [q \in {Q1, Q2} |->
                       [author_id |-> IF q = Q1 THEN U1 ELSE NULL,
                        answer_count |-> 0, is_answered |-> FALSE]]
  /\ db_answers = {}
  /\ answerSeq = 1
  /\ sharePage = [share |-> NoShare, user |-> NULL, responseSubmitted |-> FALSE,
                  error |-> ""]
  /\ lastDb = NoDb
  /\ db_follows = {}
  /\ db_follow_counts = [u \in DbUsers |-> [followers_count |-> 0, following_count |-> 0]]

\* the build's environment, matching the mode the hooks see
InitLib ==
  /\ env = IF offline THEN OfflineEnv ELSE OnlineEnv
  /\ storedPreference = JsNull
  /\ lastLib = NoLib

\* GlobalFeed and useSearch as mounted
InitSearch ==
  /\ searchTerm = <<>>
  /\ debounce = FALSE
  /\ inFlight = {}
  /\ searchSeq = 0
  /\ results = NoResults
  /\ isSearching = FALSE

\* AskQuestionPage as mounted
InitForm ==
  /\ formData = InitialFormData
  /\ errors = {}

\* the local store and the hooks of a first visit
InitStores ==
  /\ InitSearch
  /\ InitForm
  /\ authEvents = <<>>
  /\ offline_questions = <<>>
  /\ offline_votes = <<>>
  /\ remote_questions = <<>>
  /\ questions = <<>>
  /\ loading = TRUE
  /\ error = NoError
  /\ lastCall = NoCall

\* useAuthProvider as constructed: auth.user is the cached user, loading
InitAuth ==
  /\ offline \in BOOLEAN
  /\ ama_cached_user \in CachedUsers
  /\ (offline => ama_cached_user = NoUser)
  /\ auth = AuthState(ama_cached_user, TRUE, NoError)
  /\ initDone = FALSE
  /\ listening = FALSE
  /\ session \in {NULL} \cup {p.id : p \in RemoteProfiles}
  /\ (offline => session = NULL)
  /\ offline_current_user = NoUser
  /\ offline_users = <<>>
  /\ idSeq = 1
  /\ InitStores
  /\ InitDb
  /\ InitLib

NextAuth ==
  \/ initAuth
  \/ onAuthStateChange
  \/ signIn
  \/ signUp
  \/ signOut
  \/ signInWithOAuth

\* the authentication hook, from its construction
SpecAuth == InitAuth /\ [][NextAuth]_vars

LocalUser1 == [id |-> generateId(1), email |-> "b@x"]

\* useQuestions as mounted under a bootstrapped auth provider: a guest, a
\* locally signed-up user, or (online) a user with a remote session
Init ==
  /\ offline \in BOOLEAN
  /\ auth \in {AuthState(u, FALSE, NoError) : u \in {NoUser, LocalUser1} \cup RemoteProfiles}
  /\ (offline => auth.user \notin RemoteProfiles)
  /\ ama_cached_user = auth.user
  /\ initDone = TRUE
  /\ listening = ~offline
  /\ session = IF auth.user \in RemoteProfiles THEN auth.user.id ELSE NULL
  /\ offline_current_user = IF auth.user = LocalUser1 THEN LocalUser1 ELSE NoUser
  /\ offline_users = IF auth.user = LocalUser1 THEN <<LocalUser1>> ELSE <<>>
  /\ idSeq = 2
  /\ InitStores
  /\ InitDb
  /\ InitLib

Next ==
  \/ loadQuestions
  \/ createQuestion
  \/ signOut

\* the question hook: loading and asking
Spec == Init /\ [][Next]_vars

LocalUser2 == [id |-> generateId(2), email |-> "a@x"]
\* a question asked earlier by a guest, in the local store
LocalQuestion == [id |-> generateId(3), author_id |-> NULL, asker_name |-> "Ann",
                  is_anonymous |-> FALSE, votes |-> 0]
\* a question asked earlier by a guest, in the remote table
RemoteQuestion == [id |-> RemoteId(1), author_id |-> NULL, asker_name |-> NullName,
                   is_anonymous |-> TRUE, votes |-> 0]

\* useQuestions showing questions asked earlier, with one of two locally
\* signed-up users signed in; the other may have voted the local question up
InitVote ==
  /\ offline \in BOOLEAN
  /\ auth = AuthState(LocalUser1, FALSE, NoError)
  /\ ama_cached_user = auth.user
  /\ initDone = TRUE
  /\ listening = ~offline
  /\ session = NULL
  /\ offline_current_user = LocalUser1
  /\ offline_users = <<LocalUser1, LocalUser2>>
  /\ idSeq = 4
  /\ authEvents = <<>>
  /\ offline_votes \in {<<>>, saveVote(<<>>, LocalUser2.id, LocalQuestion.id, "up")}
  /\ offline_questions = IF offline_votes = <<>> THEN <<LocalQuestion>>
                         ELSE updatedQuestions(<<LocalQuestion>>, LocalQuestion.id, "up")
  /\ remote_questions = IF offline THEN <<>> ELSE <<RemoteQuestion>>
  /\ questions = <<>>
  /\ loading = TRUE
  /\ error = NoError
  /\ lastCall = NoCall
  /\ InitSearch
  /\ InitForm
  /\ InitDb
  /\ InitLib

NextVote ==
  \/ voteOnQuestion
  \/ loadQuestions
  \/ signOut

\* the question hook: voting
SpecVote == InitVote /\ [][NextVote]_vars

InitDB ==
  /\ offline = FALSE
  /\ ama_cached_user = NoUser
  /\ auth = AuthState(NoUser, TRUE, NoError)
  /\ initDone = FALSE
  /\ listening = FALSE
  /\ session = NULL
  /\ offline_current_user = NoUser
  /\ offline_users = <<>>
  /\ idSeq = 1
  /\ InitStores
  /\ InitDb
  /\ InitLib

NextDB ==
  \/ handleSubmitAnswer
  \/ deleteAnswer
  \/ handleAcceptAnswer
  \/ loadSharedQuestion
  \/ handleSubmitResponse

\* the database under the page handlers and direct requests
SpecDB == InitDB /\ [][NextDB]_vars

\* a call of isOfflineMode() and the value it returns
isOfflineModeCall ==
  /\ lastLib' = [fn |-> "isOfflineMode", args |-> <<>>,
                 result |-> JsBool(isOfflineMode(env))]
  /\ UNCHANGED <<env, storedPreference>>
  /\ UNCHANGED <<clientVars, dbVars, followVars, searchVars, formVars>>

\* the values handed to and returned through safeSupabaseOperation
JsValues ==
  {JsNull, JsUndefined, JsBool(TRUE), JsBool(FALSE), JsArray(<<>>),
   JsArray(<<RemoteQuestion>>), JsObject(RemoteQuestion), JsString(<<>>)}

\* a call safeSupabaseOperation(op, fallback) whose op resolves with value
\* ("ok") or rejects ("fail")
safeSupabaseOperationCall ==
  \E outcome \in {"ok", "fail"}, value \in JsValues, fallback \in JsValues :
    /\ lastLib' = [fn |-> "safeSupabaseOperation",
                   args |-> <<outcome, value, fallback>>,
                   result |-> safeSupabaseOperation(outcome, value, fallback)]
    /\ UNCHANGED <<env, storedPreference>>
    /\ UNCHANGED <<clientVars, dbVars, followVars, searchVars, formVars>>

\* the client before any hook has run, in a given mode
InitClient ==
  /\ ama_cached_user = NoUser
  /\ auth = AuthState(NoUser, TRUE, NoError)
  /\ initDone = FALSE
  /\ listening = FALSE
  /\ session = NULL
  /\ offline_current_user = NoUser
  /\ offline_users = <<>>
  /\ idSeq = 1
  /\ InitStores
  /\ InitDb

\* any build environment and any stored preference
InitMode ==
  /\ env \in Envs
  /\ storedPreference \in StoredPreferences
  /\ lastLib = NoLib
  /\ offline = isOfflineMode(env)
  /\ InitClient

NextMode ==
  \/ isOfflineModeCall

\* the mode switch under every environment
SpecMode == InitMode /\ [][NextMode]_vars

InitSafe ==
  /\ offline = FALSE
  /\ InitLib
  /\ InitClient

NextSafe ==
  \/ safeSupabaseOperationCall

\* the remote-call wrapper under every outcome
SpecSafe == InitSafe /\ [][NextSafe]_vars

NextFollow ==
  \/ insertFollow
  \/ deleteFollow

\* the follows table under direct requests
SpecFollow == InitDB /\ [][NextFollow]_vars

\* the directly calling hook as constructed: no user, loading; offline with
\* or without a signed-in local user, online with no session, the session
\* of a user with a profile, or the session of an identity without one
InitDirect ==
  /\ offline \in BOOLEAN
  /\ ama_cached_user = NoUser
  /\ auth = AuthState(NoUser, TRUE, NoError)
  /\ initDone = FALSE
  /\ listening = FALSE
  /\ session \in {NULL, NewIdentity} \cup {p.id : p \in RemoteProfiles}
  /\ (offline => session = NULL)
  /\ offline_users \in {<<>>, <<LocalUser1>>}
  /\ offline_current_user \in {NoUser, LocalUser1}
  /\ (offline_current_user # NoUser) => (offline /\ offline_users # <<>>)
  /\ idSeq = 2
  /\ InitStores
  /\ InitDb
  /\ InitLib

NextDirect ==
  \/ initAuthDirect
  \/ onAuthStateChangeDirect
  \/ signInDirect
  \/ signOutDirect

\* the runtime runs the mount effect and delivers every auth event; nothing
\* obliges the visitor to act
FairDirect ==
  /\ WF_vars(initAuthDirect)
  /\ WF_vars(onAuthStateChangeDirect)

\* the directly calling hook while its provider stays mounted
SpecDirect == InitDirect /\ [][NextDirect]_vars /\ FairDirect

\* the search page in either mode
InitSearchPage ==
  /\ offline \in BOOLEAN
  /\ InitLib
  /\ InitClient

NextSearch ==
  \/ setSearchTerm
  \/ debounceFires
  \/ searchCompletes

\* the search box, its debounce timer and the searches in flight
SpecSearch == InitSearchPage /\ [][NextSearch]_vars

NextAsk ==
  \/ handleInputChange
  \/ handleSubmit
  \/ loadQuestions

\* the ask-question form over the question hook
SpecAsk == Init /\ [][NextAsk]_vars

NextInsert ==
  \/ insertQuestion

\* the questions table under direct insert requests
SpecInsert == InitDB /\ [][NextInsert]_vars

(* ---------------------------------------------------------------------- *)
(* Properties                                                              *)
(* ---------------------------------------------------------------------- *)
\* every question record in either store
StoredQuestions ==
  {offline_questions[i] : i \in 1..Len(offline_questions)} \cup
  {remote_questions[i] : i \in 1..Len(remote_questions)}

IsName(n) == n \notin {NullName, Undefined, ""}

\* C1: a question created with isAnonymous = true is stored with
\* author_id = null and asker_name = null, whoever asked it and whichever
\* store took it.
C1_AnonymousHasNoAuthor ==
  \A q \in StoredQuestions :
    q.is_anonymous => (q.author_id = NULL /\ q.asker_name = NullName)

\* C2: in online mode, a loadQuestions whose remote load failed leaves the
\* list equal to the local questions joined with their local authors, has
\* raised the warning, leaves no error and leaves loading false.
C2_FailedLoadFallsBackToLocal ==
  (lastCall.op = "loadQuestions" /\ ~offline /\ lastCall.outcome = "fail") =>
    /\ lastCall.result = "ok"
    /\ questions = questionsWithAuthors(offline_questions, offline_users)
    /\ lastCall.warned
    /\ error = NoError
    /\ loading = FALSE

\* the directions of the votes of user uid on question qid, oldest first
VoteTypesOf(votes, uid, qid) ==
  LET Mine(v) == v.user_id = uid /\ v.target_id = qid /\ v.target_type = "question"
      mine == SelectSeq(votes, Mine)
  IN [i \in 1..Len(mine) |-> mine[i].vote_type]

IsLocalQuestion(qid) == \E i \in 1..Len(offline_questions) : offline_questions[i].id = qid

\* the stored vote count of local question qid
VotesOn(qs, qid) == qs[CHOOSE i \in 1..Len(qs) : qs[i].id = qid].votes

\* the call takes the local vote path: offline mode, or the rpc failed
OnLocalVotePath(outcome) == offline \/ outcome = "fail"

C4_GuestVoteRejected ==
  [][(voteOnQuestion /\ auth.user = NoUser) =>
       /\ lastCall'.result = "threw"
       /\ lastCall'.message = "Must be logged in to vote"
       /\ lastCall'.remote = <<>>
       /\ UNCHANGED <<offline_votes, offline_questions, remote_questions, questions>>]_vars

\* a guest's vote was rejected while the store holds votes
C4_Witness ==
  /\ lastCall.op = "voteOnQuestion"
  /\ lastCall.result = "threw"
  /\ auth.user = NoUser
  /\ offline_votes # <<>>

\* C5: at most one answer of a question has is_accepted = true.
C5_AtMostOneAccepted ==
  \A q \in DOMAIN db_questions :
    Cardinality({a \in DbQuestionAnswers(q) : a.is_accepted}) <= 1

\* C6: every question's answer_count is the number of its answers and
\* every profile's answers_count is the number of answers it authored.
C6_AnswerCountersExact ==
  /\ \A q \in DOMAIN db_questions :
       db_questions[q].answer_count = Cardinality(DbQuestionAnswers(q))
  /\ \A p \in DOMAIN db_profiles :
       db_profiles[p].answers_count = Cardinality({a \in db_answers : a.author_id = p})

\* C7: on a share with allow_anonymous and without require_auth, a visitor
\* who is not signed in and submits a non-empty response has it stored as an
\* answer without author and sees the response as submitted.
C7_AnonymousResponseStored ==
  (/\ lastDb.op = "handleSubmitResponse"
   /\ lastDb.result # "noop"
   /\ sharePage.user = NULL
   /\ sharePage.share.allow_anonymous
   /\ ~sharePage.share.require_auth)
  => /\ sharePage.responseSubmitted
     /\ \E a \in DbQuestionAnswers(sharePage.share.question_id) : a.author_id = NULL

\* C8: signOut returns {error: null} and leaves the auth state
\* {user: null, loading: false, error: null}, in offline mode and in online
\* mode whatever the remote sign-out did.
C8_SignOutAlwaysSucceeds ==
  (lastCall.op = "signOut") =>
    /\ lastCall.result = "ok"
    /\ lastCall.message = ""
    /\ auth = AuthState(NoUser, FALSE, NoError)

\* an online signOut whose remote call failed while a session was live
C8_Witness ==
  /\ lastCall.op = "signOut"
  /\ ~offline
  /\ lastCall.outcome = "fail"
  /\ session # NULL
  /\ auth.user = NoUser

\* C9: in online mode a signIn whose credentials the identity provider
\* rejects returns an error and does not set auth.user.
C9_InvalidCredentialsRejected ==
  [][(signIn /\ ~offline /\ lastCall'.outcome = "invalid") =>
       (lastCall'.result = "error" /\ auth'.user = auth.user)]_vars

\* C10: every stored question has exactly one attribution source: a
\* non-null author_id, a non-empty asker_name, or is_anonymous.
C10_ExactlyOneAttribution ==
  \A q \in StoredQuestions :
    Cardinality({k \in {"author", "name", "anonymous"} :
                   \/ (k = "author" /\ q.author_id # NULL)
                   \/ (k = "name" /\ IsName(q.asker_name))
                   \/ (k = "anonymous" /\ q.is_anonymous)}) = 1

\* the records a step added to a store that only grows at its end
Added(old, new) == {new[i] : i \in (Len(old) + 1)..Len(new)}

C12_FailedInsertSavedLocally ==
  [][(createQuestion /\ ~offline /\ lastCall'.outcome = "fail") =>
       /\ lastCall'.result = "ok"
       /\ lastCall'.warned
       /\ lastCall'.remote = <<"insert question">>
       /\ lastCall'.ret = generateId(idSeq)
       /\ Len(offline_questions') = Len(offline_questions) + 1
       /\ SubSeq(offline_questions', 1, Len(offline_questions)) = offline_questions
       /\ offline_questions'[Len(offline_questions')].id = generateId(idSeq)
       /\ questions' = <<WithAuthor(offline_questions'[Len(offline_questions')], auth.user)>>
                         \o questions
       /\ remote_questions' = remote_questions
       /\ error' = NoError]_vars

\* a failed online insert was saved locally in front of an earlier question
C12_Witness ==
  /\ lastCall.op = "createQuestion"
  /\ ~offline
  /\ lastCall.outcome = "fail"
  /\ lastCall.warned
  /\ Len(questions) >= 2
  /\ questions[1].id = lastCall.ret
  /\ \E i \in 1..Len(offline_questions) : offline_questions[i].id = lastCall.ret

Attempts(name, remote) == Cardinality({i \in 1..Len(remote) : remote[i] = name})

\* the remote operation a handler wraps
RemoteOperationOf(op) ==
  CASE op = "loadQuestions" -> "select questions"
    [] op = "createQuestion" -> "insert question"
    [] op = "voteOnQuestion" -> "rpc vote_on_question"

\* C14: in online mode a loadQuestions, createQuestion or voteOnQuestion
\* call attempts its remote operation exactly once, and when that attempt
\* failed the call has taken its local-store path (the branch that raises
\* the warning) without a second attempt.
C14_SingleAttemptThenLocal ==
  (/\ lastCall.op \in {"loadQuestions", "createQuestion", "voteOnQuestion"}
   /\ ~offline
   /\ lastCall.result # "threw")
  => /\ Attempts(RemoteOperationOf(lastCall.op), lastCall.remote) = 1
     /\ (lastCall.outcome = "fail") => lastCall.warned

\* C15: isOfflineMode() returns true whenever the stored preference is
\* "true", whatever the environment flag and the credentials are.
C15_StoredPreferenceWins ==
  (lastLib.fn = "isOfflineMode" /\ storedPreference = JsString(Str_true))
  => lastLib.result = JsBool(TRUE)

\* the credentials are not valid: URL or key empty or unset, URL or key the
\* placeholder, or a URL that does not start with 'https://'
CredentialsNotValid ==
  LET url == env.VITE_SUPABASE_URL
      key == env.VITE_SUPABASE_ANON_KEY
  IN \/ url \in {JsUndefined, JsString(<<>>)}
     \/ key \in {JsUndefined, JsString(<<>>)}
     \/ url = JsString(PlaceholderUrl)
     \/ key = JsString(PlaceholderKey)
     \/ ~startsWith(url.val, Str_https)

\* C16: with no stored preference, isOfflineMode() returns true exactly when
\* the offline environment flag is 'true' or the credentials are not valid,
\* and the call changes no state.
C16_ModeFromEnvironment ==
  [][(isOfflineModeCall /\ storedPreference = JsNull) =>
       /\ lastLib'.result =
            JsBool(env.VITE_OFFLINE_MODE = JsString(Str_true) \/ CredentialsNotValid)
       /\ UNCHANGED <<env, storedPreference, clientVars, dbVars, followVars, searchVars, formVars>>]_vars

\* without stored preference, an http URL with a real key made the call
\* answer true although the offline flag is not 'true'
C16_Witness ==
  /\ lastLib.fn = "isOfflineMode"
  /\ storedPreference = JsNull
  /\ env.VITE_OFFLINE_MODE = JsString(Str_false)
  /\ env.VITE_SUPABASE_URL = JsString(HttpUrl)
  /\ env.VITE_SUPABASE_ANON_KEY = JsString(AnonKey)
  /\ lastLib.result = JsBool(TRUE)

RECURSIVE SumOver(_, _)
\* the sum of the function f over the set S
SumOver(S, f) ==
  IF S = {} THEN 0
  ELSE LET x == CHOOSE y \in S : TRUE IN f[x] + SumOver(S \ {x}, f)

\* C17: every profile's followers_count is the number of follows rows that
\* point at it, its following_count the number of rows it is the follower
\* of, and the two counters have the same total.
C17_FollowCountersSymmetric ==
  LET Followers == [p \in DOMAIN db_follow_counts |-> db_follow_counts[p].followers_count]
      Following == [p \in DOMAIN db_follow_counts |-> db_follow_counts[p].following_count]
  IN /\ \A p \in DOMAIN db_follow_counts :
          /\ Followers[p] = Cardinality({r \in db_follows : r.following_id = p})
          /\ Following[p] = Cardinality({r \in db_follows : r.follower_id = p})
     /\ SumOver(DOMAIN db_follow_counts, Followers) =
        SumOver(DOMAIN db_follow_counts, Following)

\* C18: every profile's accepted_answers_count is the number of existing
\* answers it authored that have is_accepted = true.
C18_AcceptedCounterExact ==
  \A p \in DOMAIN db_profiles :
    db_profiles[p].accepted_answers_count =
      Cardinality({a \in db_answers : a.author_id = p /\ a.is_accepted})

\* C19: in online mode, once signInWithOAuth has started the provider
\* redirect, auth.loading is true.
C19_LoadingSetAcrossRedirect ==
  [][(signInWithOAuth /\ ~offline /\ lastCall'.outcome = "ok") =>
       auth'.loading = TRUE]_vars

\* C20: the local vote store holds at most one vote record per user and
\* question.
C20_OneVotePerUserAndQuestion ==
  \A i, j \in 1..Len(offline_votes) :
    (/\ offline_votes[i].user_id = offline_votes[j].user_id
     /\ offline_votes[i].target_id = offline_votes[j].target_id
     /\ offline_votes[i].target_type = offline_votes[j].target_type)
    => i = j

\* C21: once signOut has completed, in either mode and whatever sign-in
\* path set it, localStorage has no offline_current_user entry.
C21_SignOutClearsLocalUser ==
  (lastCall.op = "signOut") => offline_current_user = NoUser

\* the accepted answers, by id
AcceptedIds(answers) == {a.id : a \in {b \in answers : b.is_accepted}}

\* u may accept answers of question q: its author or a moderator
MayAccept(u, q) == db_questions[q].author_id = u \/ db_profiles[u].is_moderator

\* C22: an answer's stored is_accepted becomes true only by a
\* handleAcceptAnswer of the question's author or of a moderator, and a
\* handleAcceptAnswer by such a user leaves the answer stored as accepted.
C22_AcceptByAuthorOrModerator ==
  [][/\ (AcceptedIds(db_answers') \ AcceptedIds(db_answers) # {}) =>
          \E u \in DbUsers, q \in DOMAIN db_questions :
            \E a \in DbQuestionAnswers(q) :
              handleAcceptAnswerCall(u, q, a) /\ MayAccept(u, q)
     /\ \A u \in DbUsers, q \in DOMAIN db_questions :
          \A a \in DbQuestionAnswers(q) :
            (handleAcceptAnswerCall(u, q, a) /\ MayAccept(u, q)) =>
              a.id \in AcceptedIds(db_answers')]_vars

\* the count the local question had before the signed-in user voted: one per
\* earlier up vote of the other user
InitialVotes ==
  Len(VoteTypesOf(offline_votes, LocalUser2.id, LocalQuestion.id))

\* C23: in offline mode the votes of one user move the stored count of one
\* question by at most one from its initial value, whatever sequence of up
\* and down votes the user casts.
C23_NetVoteWithinOne ==
  offline => (VotesOn(offline_questions, LocalQuestion.id) - InitialVotes \in -1..1)

\* C24: an online createQuestion stores the question in exactly one store:
\* when it returns, either the remote table or the local store has gained
\* the question, never both, also when a remote step after the committed
\* insert fails.
C24_StoredInExactlyOneStore ==
  [][(createQuestion /\ ~offline) =>
       LET remote == Added(remote_questions, remote_questions')
           local == Added(offline_questions, offline_questions')
       IN Cardinality(remote) + Cardinality(local) = 1]_vars

\* C25: when initAuth has completed without finding a signed-in identity -
\* offline without an offline_current_user entry, online with no session or
\* a failed session lookup - auth.user is null, whatever ama_cached_user
\* held when the provider was constructed.
C25_BootstrapWithoutIdentityIsAnonymous ==
  (/\ lastCall.op = "initAuth"
   /\ offline => offline_current_user = NoUser
   /\ ~offline => (session = NULL \/ lastCall.outcome = "fail"))
  => auth.user = NoUser

\* C26: every bootstrap leaves the loading state: in each execution, with
\* initAuth run by the mount effect and the provider mounted, eventually
\* initAuth has run and auth.loading is false.
C26_BootstrapLeavesLoading ==
  <>(initDone /\ auth.loading = FALSE)

\* the search page is at rest on a non-blank term: no timer pending, no
\* call in flight
SearchSettled ==
  /\ ~debounce
  /\ inFlight = {}
  /\ trim(searchTerm) # <<>>

\* C27: once every searchDatabase call has completed, results holds the
\* results of the term issued last (the term in the search box), whichever
\* response arrived last.
C27_LatestSearchWins ==
  SearchSettled =>
    results.questions \in {Matching(RemoteTitles, searchTerm),
                           Matching(LocalTitles, searchTerm)}

\* C28: a guest who submits the form with 'ask anonymously' checked has the
\* question stored with is_anonymous = true, and a guest who submits it with
\* a name and the box unchecked has it stored with that name as asker_name.
C28_FormKeepsGuestAttribution ==
  [][(handleSubmit /\ auth.user = NoUser /\ validateForm(auth.user, formData) = {}) =>
       LET new == Added(offline_questions, offline_questions') \cup
                  Added(remote_questions, remote_questions')
       IN /\ new # {}
          /\ \A q \in new :
               /\ Checked(formData) => q.is_anonymous
               /\ (~Checked(formData) /\ Trim(formData.askerName) # "") =>
                     q.asker_name = formData.askerName]_vars

\* C29: every question row the database accepts has author_id null or equal
\* to the identity of the requester that inserted it.
C29_AuthorshipNotForged ==
  [][insertQuestion =>
       \A q \in DOMAIN db_questions' \ DOMAIN db_questions :
         db_questions'[q].author_id \in {NULL, lastDb'.uid}]_vars

\* C30: a question has is_answered = true exactly when one of its existing
\* answers has is_accepted = true.
C30_AnsweredTracksAcceptance ==
  \A q \in DOMAIN db_questions :
    db_questions[q].is_answered <=> (\E a \in DbQuestionAnswers(q) : a.is_accepted)
====
